---- MODULE Spec2Model ----
(***************************************************************************)
(* Model of zexson_toolkit: the key-shifted double base64 codec, the       *)
(* padded encrypt/decrypt transform, the token generator, the equality     *)
(* comparator and the object walker.                                       *)
(*                                                                         *)
(* A JavaScript string is a sequence of 16-bit code units (naturals below  *)
(* 65536).  A Buffer is a sequence of bytes.  Math.random() is a stream of *)
(* rationals n/RndDen that every draw consumes one element of.             *)
(***************************************************************************)
EXTENDS Integers, Sequences, FiniteSets, TLC

VARIABLES data, options, dopts, rnd, E, D, be, bd, text, text1, eq,
          encryptedData, decryptedData, tokenLength, tokenType, tokenResult

vars == <<data, options, dopts, rnd, E, D, be, bd, text, text1, eq,
          encryptedData, decryptedData, tokenLength, tokenType, tokenResult>>

\* the variables of a tokenGenerator call
tokenVars == <<tokenLength, tokenType, tokenResult>>

(***************************************************************************)
(* Bounds of the model.                                                    *)
(***************************************************************************)
MaxLen == 2
RndPeriod == 2
RndDen == 20

Null == [kind |-> "none", val |-> <<>>]

\* no value yet
NoValue == <<"none", <<>>>>

(***************************************************************************)
(* Code units and strings.                                                 *)
(***************************************************************************)
CodeUnits == 65536

\* String.fromCharCode(n): ToUint16 of n
fromCharCode(n) == n % CodeUnits

Max(a, b) == IF a < b THEN b ELSE a

\* code units that String.prototype.trim strips
IsWhiteSpace(c) ==
    \/ c \in {9, 10, 11, 12, 13, 32, 160, 5760, 8232, 8233, 8239, 8287, 12288, 65279}
    \/ c \in 8192..8202

trim(s) ==
    LET keep == {i \in 1..Len(s) : ~IsWhiteSpace(s[i])}
    IN  IF keep = {} THEN <<>>
        ELSE LET lo == CHOOSE i \in keep : \A j \in keep : i <= j
                 hi == CHOOSE i \in keep : \A j \in keep : j <= i
             IN  SubSeq(s, lo, hi)

\* String.prototype.toLowerCase on the Basic Latin and Latin-1 letters
toLowerCase(s) ==
    [i \in 1..Len(s) |->
        IF \/ s[i] \in 65..90
           \/ s[i] \in 192..214
           \/ s[i] \in 216..222
        THEN s[i] + 32 ELSE s[i]]

(***************************************************************************)
(* Buffer.from(string) and Buffer.toString(): UTF-8.                       *)
(***************************************************************************)
IsHighSurrogate(c) == c \in 55296..56319
IsLowSurrogate(c) == c \in 56320..57343

Utf8OfCodePoint(cp) ==
    IF cp < 128 THEN <<cp>>
    ELSE IF cp < 2048 THEN <<192 + (cp \div 64), 128 + (cp % 64)>>
    ELSE IF cp < 65536
         THEN <<224 + (cp \div 4096), 128 + ((cp \div 64) % 64), 128 + (cp % 64)>>
    ELSE <<240 + (cp \div 262144), 128 + ((cp \div 4096) % 64),
           128 + ((cp \div 64) % 64), 128 + (cp % 64)>>

\* the bytes the code unit at position i contributes: a surrogate pair is
\* written at its high half, a lone surrogate becomes U+FFFD
Utf8At(s, i) ==
    IF IsHighSurrogate(s[i]) /\ i < Len(s) /\ IsLowSurrogate(s[i + 1])
    THEN Utf8OfCodePoint(65536 + (s[i] - 55296) * 1024 + (s[i + 1] - 56320))
    ELSE IF IsLowSurrogate(s[i]) /\ i > 1 /\ IsHighSurrogate(s[i - 1]) THEN <<>>
    ELSE IF IsHighSurrogate(s[i]) \/ IsLowSurrogate(s[i]) THEN <<239, 191, 189>>
    ELSE Utf8OfCodePoint(s[i])

RECURSIVE Utf8EncodeRange(_, _, _)
Utf8EncodeRange(s, lo, hi) ==
    IF lo > hi THEN <<>>
    ELSE IF lo = hi THEN Utf8At(s, lo)
    ELSE LET mid == (lo + hi) \div 2
         IN  Utf8EncodeRange(s, lo, mid) \o Utf8EncodeRange(s, mid + 1, hi)

\* Buffer.from(s): the UTF-8 bytes of s
BufferFrom(s) ==
    IF \A i \in 1..Len(s) : s[i] < 128 THEN s ELSE Utf8EncodeRange(s, 1, Len(s))

\* the range the k-th continuation byte of a sequence led by b must lie in
ContRange(b, k) ==
    IF k = 1 /\ b = 224 THEN 160..191
    ELSE IF k = 1 /\ b = 237 THEN 128..159
    ELSE IF k = 1 /\ b = 240 THEN 144..191
    ELSE IF k = 1 /\ b = 244 THEN 128..143
    ELSE 128..191

\* number of continuation bytes the lead byte b announces (0: not a lead)
ContCount(b) ==
    IF b \in 194..223 THEN 1
    ELSE IF b \in 224..239 THEN 2
    ELSE IF b \in 240..244 THEN 3
    ELSE 0

\* how many of the announced continuation bytes are present after position i
ContMatched(bs, i) ==
    LET n == ContCount(bs[i])
        ok(k) == i + k <= Len(bs) /\ bs[i + k] \in ContRange(bs[i], k)
    IN  IF n >= 1 /\ ok(1)
        THEN IF n >= 2 /\ ok(2)
             THEN IF n >= 3 /\ ok(3) THEN 3 ELSE 2
             ELSE 1
        ELSE 0

CodeUnitsOfCodePoint(cp) ==
    IF cp < 65536 THEN <<cp>>
    ELSE <<55296 + ((cp - 65536) \div 1024), 56320 + ((cp - 65536) % 1024)>>

\* whether the byte at position i was consumed as a continuation byte of a
\* lead byte before it
IsConsumed(bs, i) ==
    \E j \in Max(1, i - 3)..(i - 1) : ContCount(bs[j]) > 0 /\ ContMatched(bs, j) >= i - j

\* the code units decoded at position i: an ill-formed sequence becomes U+FFFD
Utf8DecodeAt(bs, i) ==
    IF IsConsumed(bs, i) THEN <<>>
    ELSE IF bs[i] < 128 THEN <<bs[i]>>
    ELSE LET n == ContCount(bs[i])
         IN  IF n = 0 \/ ContMatched(bs, i) < n THEN <<65533>>
             ELSE IF n = 1
                  THEN CodeUnitsOfCodePoint((bs[i] - 192) * 64 + (bs[i + 1] - 128))
             ELSE IF n = 2
                  THEN CodeUnitsOfCodePoint((bs[i] - 224) * 4096 + (bs[i + 1] - 128) * 64
                                            + (bs[i + 2] - 128))
             ELSE CodeUnitsOfCodePoint((bs[i] - 240) * 262144 + (bs[i + 1] - 128) * 4096
                                       + (bs[i + 2] - 128) * 64 + (bs[i + 3] - 128))

RECURSIVE Utf8DecodeRange(_, _, _)
Utf8DecodeRange(bs, lo, hi) ==
    IF lo > hi THEN <<>>
    ELSE IF lo = hi THEN Utf8DecodeAt(bs, lo)
    ELSE LET mid == (lo + hi) \div 2
         IN  Utf8DecodeRange(bs, lo, mid) \o Utf8DecodeRange(bs, mid + 1, hi)

\* buf.toString(): UTF-8 decoding
BufferToString(bs) ==
    IF \A i \in 1..Len(bs) : bs[i] < 128 THEN bs ELSE Utf8DecodeRange(bs, 1, Len(bs))

(***************************************************************************)
(* Buffer base64: toString('base64') and Buffer.from(s, 'base64').         *)
(***************************************************************************)
B64Char(v) ==
    IF v < 26 THEN 65 + v
    ELSE IF v < 52 THEN 97 + (v - 26)
    ELSE IF v < 62 THEN 48 + (v - 52)
    ELSE IF v = 62 THEN 43
    ELSE 47

\* the sextet of a base64 or base64url character, -1 for any other character
Unbase64(c) ==
    IF c \in 65..90 THEN c - 65
    ELSE IF c \in 97..122 THEN c - 97 + 26
    ELSE IF c \in 48..57 THEN c - 48 + 52
    ELSE IF c = 43 \/ c = 45 THEN 62
    ELSE IF c = 47 \/ c = 95 THEN 63
    ELSE 0 - 1

\* buf.toString('base64')
ToBase64(bs) ==
    LET n == Len(bs)
        at(j) == IF j <= n THEN bs[j] ELSE 0
    IN  [i \in 1..(4 * ((n + 2) \div 3)) |->
            LET g == (i - 1) \div 4
                k == (i - 1) % 4
                b0 == at(3 * g + 1)
                b1 == at(3 * g + 2)
                b2 == at(3 * g + 3)
            IN  IF k = 0 THEN B64Char(b0 \div 4)
                ELSE IF k = 1 THEN B64Char((b0 % 4) * 16 + (b1 \div 16))
                ELSE IF k = 2
                     THEN IF 3 * g + 2 > n THEN 61
                          ELSE B64Char((b1 % 16) * 4 + (b2 \div 64))
                ELSE IF 3 * g + 3 > n THEN 61 ELSE B64Char(b2 % 64)]

IsBase64Char(c) == Unbase64(c) >= 0

\* the bytes of a sequence of sextets; a last group of one sextet gives none
SextetsToBytes(sx) ==
    [i \in 1..((Len(sx) * 3) \div 4) |->
        LET g == (i - 1) \div 3
            r == (i - 1) % 3
            s0 == Unbase64(sx[4 * g + 1])
            s1 == Unbase64(sx[4 * g + 2])
            s2 == IF 4 * g + 3 <= Len(sx) THEN Unbase64(sx[4 * g + 3]) ELSE 0
            s3 == IF 4 * g + 4 <= Len(sx) THEN Unbase64(sx[4 * g + 4]) ELSE 0
        IN  IF r = 0 THEN s0 * 4 + (s1 \div 16)
            ELSE IF r = 1 THEN (s1 % 16) * 16 + (s2 \div 4)
            ELSE (s2 % 4) * 64 + s3]

\* the position of the first '=' of s, Len(s) + 1 when it has none
FirstPad(s) ==
    LET pads == {i \in 1..Len(s) : s[i] = 61}
    IN  IF pads = {} THEN Len(s) + 1
        ELSE CHOOSE i \in pads : \A j \in pads : i <= j

\* Buffer.from(s, 'base64'): characters outside the alphabet are skipped and
\* decoding stops at the first '='
FromBase64(s) ==
    SextetsToBytes(SelectSeq(SubSeq(s, 1, FirstPad(s) - 1), IsBase64Char))

(***************************************************************************)
(* The obfuscation codec.                                                  *)
(***************************************************************************)
\* 'qwertyuioplkjhgfdsazxcvbnm'
DefaultKey ==
    <<113, 119, 101, 114, 116, 121, 117, 105, 111, 112, 108, 107, 106,
      104, 103, 102, 100, 115, 97, 122, 120, 99, 118, 98, 110, 109>>

\* 'secretKey'
SecretKey == <<115, 101, 99, 114, 101, 116, 75, 101, 121>>

RECURSIVE SumFrom(_, _)
SumFrom(s, i) == IF i > Len(s) THEN 0 ELSE s[i] + SumFrom(s, i + 1)

\* a key sum that takes the first character only
keySumFirst(key) == IF key = <<>> THEN 0 ELSE key[1]

\* key.split('').reduce((acc, char) => acc + char.charCodeAt(0), 0)
keySum(key) == SumFrom(key, 1)

shiftChar(code, shift) == fromCharCode(code + shift)

\* unshiftChar written as a copy of shiftChar
unshiftCharAdds(code, shift) == fromCharCode(code + shift)

unshiftChar(code, shift) == fromCharCode(code - shift)

\* an optional string argument is <<>> (undefined) or <<s>>
KeyOrDefault(keyOpt) == IF keyOpt = <<>> THEN DefaultKey ELSE keyOpt[1]

\* .map((char, index) => shiftChar(char, (keySum + index) % 20))
KeyShift(d, ks) == [i \in 1..Len(d) |-> shiftChar(d[i], (ks + (i - 1)) % 20)]

\* .map((char, index) => shiftChar(char, index % 5))
FinalMix(step2) == [i \in 1..Len(step2) |-> shiftChar(step2[i], (i - 1) % 5)]

base64Encode(d, keyOpt) ==
    FinalMix(ToBase64(BufferFrom(ToBase64(BufferFrom(
        KeyShift(d, keySum(KeyOrDefault(keyOpt))))))))

\* .map((char, index) => unshiftChar(char, index % 5))
Unmix(e) == [i \in 1..Len(e) |-> unshiftChar(e[i], (i - 1) % 5)]

\* .map((char, index) => unshiftChar(char, (keySum + index) % 20))
KeyUnshift(step2, ks) ==
    [i \in 1..Len(step2) |-> unshiftChar(step2[i], (ks + (i - 1)) % 20)]

base64Decode(encryptedData_, keyOpt) ==
    KeyUnshift(BufferToString(FromBase64(BufferToString(FromBase64(Unmix(encryptedData_))))),
               keySum(KeyOrDefault(keyOpt)))

(***************************************************************************)
(* Math.random(): the stream r, read cyclically; position pos is the       *)
(* number of draws made so far.                                            *)
(***************************************************************************)
RndAt(r, pos) == r[(pos % Len(r)) + 1]

\* Math.floor(Math.random() * n)
RandomBelow(r, pos, n) == (RndAt(r, pos) * n) \div RndDen

(***************************************************************************)
(* The token generator.                                                    *)
(***************************************************************************)
\* 'ABCDEFGHIJKLMNOPQRSTUVWXYZabcdefghijklmnopqrstuvwxyz0123456789'
defaultSet ==
    [i \in 1..62 |-> IF i <= 26 THEN 64 + i ELSE IF i <= 52 THEN 70 + i ELSE i - 5]

\* '0123456789'
set1 == [i \in 1..10 |-> 47 + i]

\* 'ABCDEFGHIJKLMNOPQRSTUVWXYZabcdefghijklmnopqrstuvwxyz'
set2 == [i \in 1..52 |-> IF i <= 26 THEN 64 + i ELSE 70 + i]

\* characterSets[type_] || characterSets.defaultSet
characterSets(type_) ==
    IF type_ = "set1" THEN set1
    ELSE IF type_ = "set2" THEN set2
    ELSE defaultSet

\* characterSet.charAt(Math.floor(Math.random() * characterSet.length))
RandomChar(characterSet, r, pos) ==
    characterSet[RandomBelow(r, pos, Len(characterSet)) + 1]

\* The do-while of tokenGenerator for a token whose first character is '0':
\* every pass redraws _token_[0] from the unchanged token.  A periodic stream
\* that yields '0' on Len(r) passes in a row yields it for ever.
RECURSIVE RedrawLoop(_, _, _, _, _)
RedrawLoop(token, characterSet, r, pos, pass) ==
    IF pass > Len(r) THEN [kind |-> "diverge", val |-> <<>>, pos |-> pos]
    ELSE LET c == RandomChar(characterSet, r, pos)
         IN  IF c = 48
             THEN RedrawLoop(token, characterSet, r, pos + 1, pass + 1)
             ELSE [kind |-> "return",
                   val |-> [i \in 1..Len(token) |-> IF i = 1 THEN c ELSE token[i]],
                   pos |-> pos + 1]

\* a generator that returns the token as first drawn
tokenGeneratorKeeps(length, type_, r, pos) ==
    [kind |-> "return",
     val |-> [i \in 1..Max(length, 0) |-> RandomChar(characterSets(type_), r, pos + i - 1)],
     pos |-> pos + Max(length, 0)]

tokenGenerator(length, type_, r, pos) ==
    LET characterSet == characterSets(type_)
        n == Max(length, 0)
        token == [i \in 1..n |-> RandomChar(characterSet, r, pos + i - 1)]
    IN  IF length < 0
        THEN \* token.length !== length on every pass
             [kind |-> "diverge", val |-> <<>>, pos |-> pos]
        ELSE IF n >= 1 /\ token[1] = 48
             THEN RedrawLoop(token, characterSet, r, pos + n, 1)
        ELSE [kind |-> "return", val |-> token, pos |-> pos + n]

(***************************************************************************)
(* The layered transform.                                                  *)
(***************************************************************************)
\* An options object: given is FALSE for an omitted argument; hasKey tells
\* whether 'key' is an own property; key and the two sets are <<>> when
\* undefined and <<value>> otherwise.
NoOptions ==
    [given |-> FALSE, hasKey |-> FALSE, key |-> <<>>,
     firstRandomCharSet |-> <<>>, secondRandomCharSet |-> <<>>]

KeyOptions(k) ==
    [given |-> TRUE, hasKey |-> TRUE, key |-> <<k>>,
     firstRandomCharSet |-> <<>>, secondRandomCharSet |-> <<>>]

SetOptions(first, second) ==
    [given |-> TRUE, hasKey |-> FALSE, key |-> <<>>,
     firstRandomCharSet |-> first, secondRandomCharSet |-> second]

OptSet(o) == IF o = <<>> THEN "undefined" ELSE o[1]

\* .map(char => String.fromCharCode((DataCharCode - 80) + 70))
Unshift10(s) == [i \in 1..Len(s) |-> fromCharCode((s[i] - 80) + 70)]

\* .map(char => String.fromCharCode((DataCharCode + 80) - 70))
Shift10(s) == [i \in 1..Len(s) |-> fromCharCode((s[i] + 80) - 70)]

\* the 0-based index at which the loop of decrypt leaves: its break, or the
\* end of the data
LoopEnd(n, start, secondPart) ==
    LET stops == {i \in start..(n - 1) : Max(0, n - 1 - i) = secondPart}
    IN  IF stops = {} THEN n ELSE CHOOSE i \in stops : \A j \in stops : i <= j

\* a decrypt that takes an empty payload for an empty plaintext
StripPaddingLenient(dat) ==
    IF Len(dat) = 0 THEN [kind |-> "return", val |-> <<>>]
    ELSE IF dat[1] - 85 + 1 < 0 THEN [kind |-> "throw", val |-> <<>>]
    ELSE [kind |-> "return",
          val |-> Unshift10(SubSeq(dat, dat[1] - 85 + 2,
                                   LoopEnd(Len(dat), dat[1] - 85 + 1,
                                           dat[Len(dat)] - 85)))]

\* decrypt from the decoded and unshifted data on: the markers and the loop
StripPadding(dat) ==
    IF Len(dat) = 0
    THEN \* data[0] is undefined
         [kind |-> "throw", val |-> <<>>]
    ELSE IF dat[1] - 85 + 1 < 0
         THEN \* data[i] is undefined for a negative i
              [kind |-> "throw", val |-> <<>>]
    ELSE [kind |-> "return",
          val |-> Unshift10(SubSeq(dat, dat[1] - 85 + 2,
                                   LoopEnd(Len(dat), dat[1] - 85 + 1,
                                           dat[Len(dat)] - 85)))]

\* options.hasOwnProperty('key') ? options.key : 'secretKey', after an
\* omitted options argument became { key: default }
DecryptKey(opts) ==
    IF ~opts.given THEN <<DefaultKey>>
    ELSE IF opts.hasKey THEN opts.key
    ELSE <<SecretKey>>

decrypt(d, opts) == StripPadding(Unshift10(base64Decode(trim(d), DecryptKey(opts))))

\* firsPart + randomChars0 + res + randomChars1 + secondPart
Padded(d, randomChars0, randomChars1) ==
    <<fromCharCode(Len(randomChars0) + 85)>> \o randomChars0 \o Shift10(d)
    \o randomChars1 \o <<fromCharCode(Len(randomChars1) + 85)>>

\* the self-verification of a ciphertext, drawn up to position pos
Verify(d, o, encrypted, check, pos) ==
    IF check.kind = "throw" THEN [kind |-> "throw", val |-> <<>>, pos |-> pos]
    ELSE IF check.val = d THEN [kind |-> "verified", val |-> encrypted, pos |-> pos]
    ELSE [kind |-> "unverified", val |-> encrypted, pos |-> pos]

VerifyEncrypted(d, o, encrypted, pos) ==
    Verify(d, o, encrypted,
           decrypt(encrypted, [given |-> TRUE, hasKey |-> TRUE, key |-> o.key,
                               firstRandomCharSet |-> <<>>,
                               secondRandomCharSet |-> <<>>]),
           pos)

\* encrypt once both tokens are drawn
WithTokens(d, o, t0, t1) ==
    IF t0.kind = "diverge" \/ t1.kind = "diverge"
    THEN [kind |-> "diverge", val |-> <<>>, pos |-> t1.pos]
    ELSE VerifyEncrypted(d, o, base64Encode(Shift10(Padded(d, t0.val, t1.val)), o.key),
                         t1.pos)

\* tokenGenerator(Math.floor(Math.random() * (5 + 15) + 1), set)
RandomToken(set, r, pos) ==
    tokenGenerator(RandomBelow(r, pos, 5 + 15) + 1, OptSet(set), r, pos + 1)

WithFirstToken(d, o, r, t0) ==
    WithTokens(d, o, t0, RandomToken(o.secondRandomCharSet, r, t0.pos))

\* One pass through the body of encrypt for a string, drawing from position
\* pos: the ciphertext, whether it passed the self-verification, and the
\* position after the draws.
EncryptAttempt(d, o, r, pos) ==
    WithFirstToken(d, o, r, RandomToken(o.firstRandomCharSet, r, pos))

\* what the caller of the else branch gets: the recursive call is not returned
Unreturned(inner) ==
    IF inner.kind \in {"diverge", "throw"} THEN inner
    ELSE [kind |-> "undefined", val |-> <<>>, pos |-> inner.pos]

\* encrypt on trimmed data at recursion depth `depth`.  Attempts start at
\* positions of a periodic stream: after Len(r) + 1 failures a start position
\* has repeated and the recursion never ends, which the runtime turns into a
\* RangeError that the catch rethrows.
RECURSIVE EncryptFrom(_, _, _, _, _)
AfterAttempt(d, o, r, depth, a) ==
    IF a.kind = "diverge" THEN [kind |-> "diverge", val |-> <<>>, pos |-> a.pos]
    ELSE IF a.kind = "throw" THEN [kind |-> "throw", val |-> <<>>, pos |-> a.pos]
    ELSE IF a.kind = "verified" THEN [kind |-> "return", val |-> a.val, pos |-> a.pos]
    ELSE IF depth >= Len(r) THEN [kind |-> "throw", val |-> <<>>, pos |-> a.pos]
    ELSE Unreturned(EncryptFrom(d, o, r, a.pos, depth + 1))

EncryptFrom(d, o, r, pos, depth) ==
    AfterAttempt(d, o, r, depth, EncryptAttempt(d, o, r, pos))

\* the options encrypt works with
EncryptDefaults(opts) ==
    IF ~opts.given
    THEN [given |-> TRUE, hasKey |-> TRUE, key |-> <<DefaultKey>>,
          firstRandomCharSet |-> <<"defaultSet">>,
          secondRandomCharSet |-> <<"defaultSet">>]
    ELSE opts

\* encrypt(data, options) for a string
encrypt(d, opts, r, pos) == EncryptFrom(trim(d), EncryptDefaults(opts), r, pos, 0)

(***************************************************************************)
(* The equality comparator.  An argument is a value <<type, payload>>: a   *)
(* string or undefined (what encrypt hands back when it returns nothing).  *)
(***************************************************************************)
Str(s) == <<"string", s>>

UndefinedV == <<"undefined", <<>>>>

\* what a completed encrypt call handed to its caller
Returned(e) == IF e.kind = "return" THEN Str(e.val) ELSE UndefinedV

\* an IsEqualOptions object; caseSensitive, key and log are <<>> when absent
NoEqOptions == [given |-> FALSE, caseSensitive |-> <<>>, key |-> <<>>, log |-> <<>>]

EqOptions(cs, k, lg) == [given |-> TRUE, caseSensitive |-> cs, key |-> k, log |-> lg]

EqResult(b, m) == [isEqual |-> b, method |-> m]

\* a throw of decrypt leaves the text itself
OrSelf(t, r) == IF r.kind = "throw" THEN t ELSE r.val

\* decrypt(t, { key }) inside its own try
DecryptOrSelf(t, key) ==
    OrSelf(t, decrypt(t, [given |-> TRUE, hasKey |-> TRUE, key |-> key,
                          firstRandomCharSet |-> <<>>, secondRandomCharSet |-> <<>>]))

\* Text[isCaseSensitive]()
Fold(s, lower) == IF lower THEN toLowerCase(s) ELSE s

\* logMessage = "Both decrypted values <U+200B><U+200B>match": the literal of
\* the source holds two zero-width spaces, written here as \u200B
BothMatchMessage == "Both decrypted values \\u200B\\u200Bmatch"

\* comparisons that end after the step of decrypted Text1 against Text
CompareStopsEarly(Text, Text1, decryptedText, decryptedText1, lower) ==
    IF Text = Text1 \/ Fold(Text, lower) = Fold(Text1, lower)
    THEN EqResult(TRUE, "Direct comparison")
    ELSE IF decryptedText1 = Text \/ Fold(decryptedText1, lower) = Fold(Text, lower)
    THEN EqResult(TRUE, "Decrypted Text1 matched Text")
    ELSE EqResult(FALSE, "")

\* the four comparisons of isEqual on two strings and their decrypted forms
Compare(Text, Text1, decryptedText, decryptedText1, lower) ==
    IF \/ Text = Text1
       \/ Fold(Text, lower) = Text1
       \/ Text = Fold(Text1, lower)
       \/ Fold(Text, lower) = Fold(Text1, lower)
    THEN EqResult(TRUE, "Direct comparison")
    ELSE IF \/ decryptedText1 = Text
            \/ Fold(decryptedText1, lower) = Text
            \/ decryptedText1 = Fold(Text, lower)
            \/ Fold(decryptedText1, lower) = Fold(Text, lower)
    THEN EqResult(TRUE, "Decrypted Text1 matched Text")
    ELSE IF \/ decryptedText = Text1
            \/ Fold(decryptedText, lower) = Text1
    THEN EqResult(TRUE, "Decrypted Text matches Text1")
    ELSE IF \/ decryptedText1 = decryptedText
            \/ Fold(decryptedText1, lower) = decryptedText
            \/ decryptedText1 = Fold(decryptedText, lower)
    THEN EqResult(TRUE, BothMatchMessage)
    ELSE EqResult(FALSE, "")

\* options || { caseSensitive: true }
EqDefaults(opts) == IF opts.given THEN opts ELSE EqOptions(<<TRUE>>, <<>>, <<>>)

\* options.key || undefined
EqKey(o) == IF o.key = <<>> \/ o.key[1] = <<>> THEN <<>> ELSE o.key

\* !options.caseSensitive ? "toLowerCase" : "toString"
EqLower(o) == ~(o.caseSensitive # <<>> /\ o.caseSensitive[1])

\* the body of the try of isEqual on strings, undefined or null; calling a
\* method of undefined or null raises
IsEqualBody(a, b, opts) ==
    IF a = b THEN [kind |-> "return", val |-> EqResult(TRUE, "Direct comparison")]
    ELSE IF a[1] \in {"undefined", "null"} \/ b[1] \in {"undefined", "null"}
         THEN [kind |-> "throw", val |-> EqResult(FALSE, "")]
    ELSE [kind |-> "return",
          val |-> Compare(a[2], b[2],
                          DecryptOrSelf(a[2], EqKey(EqDefaults(opts))),
                          DecryptOrSelf(b[2], EqKey(EqDefaults(opts))),
                          EqLower(EqDefaults(opts)))]

\* a catch that lets the error through
CaughtRethrows(body) == body

\* catch (err) { console.error(...); return { isEqual: false } }
Caught(body) ==
    IF body.kind = "throw" THEN [kind |-> "return", val |-> EqResult(FALSE, "")]
    ELSE body

\* the outcome of isEqual(a, b, opts)
isEqual(a, b, opts) == Caught(IsEqualBody(a, b, opts))

(***************************************************************************)
(* The object walker.  A value is a string, a number, a boolean, null,     *)
(* undefined, a function, an array (a sequence of values) or an object (a  *)
(* sequence of entries in insertion order, keys not integer-like).         *)
(***************************************************************************)
Num(n) == <<"number", n>>
Bool(b) == <<"boolean", b>>
NullV == <<"null", <<>>>>
FunctionV == <<"function", <<>>>>
Arr(items) == <<"array", items>>
Obj(entries) == <<"object", entries>>
Entry(k, val) == [k |-> k, v |-> val]

RECURSIVE Digits(_)
Digits(n) == IF n < 10 THEN <<48 + n>> ELSE Digits(n \div 10) \o <<48 + (n % 10)>>

\* String(v) of a string, a natural number or a boolean
StringOf(x) ==
    IF x[1] = "string" THEN x[2]
    ELSE IF x[1] = "number" THEN Digits(x[2])
    ELSE IF x[2] THEN <<116, 114, 117, 101>>
    ELSE <<102, 97, 108, 115, 101>>

\* typeof v == 'object' once Array.isArray(v) is excluded
TypeofObject(x) == x[1] \in {"object", "null"}

\* Object.entries(data); of null or undefined it throws
Entries(x) ==
    IF x[1] = "object" THEN x[2]
    ELSE IF x[1] = "array" THEN [i \in 1..Len(x[2]) |-> Entry(Digits(i - 1), x[2][i])]
    ELSE IF x[1] = "string" THEN [i \in 1..Len(x[2]) |-> Entry(Digits(i - 1), Str(<<x[2][i]>>))]
    ELSE <<>>

\* what the walker stores for a leaf: the result of the call, or its failure
LeafResult(e) ==
    IF e.kind \in {"throw", "diverge"} THEN [kind |-> e.kind, val |-> UndefinedV, pos |-> e.pos]
    ELSE [kind |-> "return", val |-> Returned(e), pos |-> e.pos]

\* encrypt(s, { key }) as the walker uses its result
EncryptLeaf(s, key, r, pos) == LeafResult(encrypt(s, KeyOptions(key), r, pos))

\* The dispatch of encryptObject on a value at one of its three levels: the
\* value of an entry, an item of an array, a subItem of an array in an array.
RECURSIVE EncryptNode(_, _, _, _, _)
RECURSIVE EncryptSeq(_, _, _, _, _, _)
RECURSIVE encryptObject(_, _, _, _)

Cons(head, tail) ==
    IF tail.kind # "return" THEN tail
    ELSE [kind |-> "return", val |-> <<head.val>> \o tail.val, pos |-> tail.pos]

AfterHead(level, vs, i, key, r, head) ==
    IF head.kind # "return" THEN head
    ELSE Cons(head, EncryptSeq(level, vs, i + 1, key, r, head.pos))

\* vs.map(...) from element i on, at the level given
EncryptSeq(level, vs, i, key, r, pos) ==
    IF i > Len(vs) THEN [kind |-> "return", val |-> <<>>, pos |-> pos]
    ELSE AfterHead(level, vs, i, key, r, EncryptNode(level, vs[i], key, r, pos))

AsArray(m) ==
    IF m.kind # "return" THEN m
    ELSE [kind |-> "return", val |-> Arr(m.val), pos |-> m.pos]

EncryptNode(level, x, key, r, pos) ==
    IF x[1] \in {"string", "number"} \/ (level = "entry" /\ x[1] = "boolean")
    THEN EncryptLeaf(IF level = "entry" THEN trim(StringOf(x)) ELSE StringOf(x),
                     key, r, pos)
    ELSE IF x[1] = "array"
         THEN \* an array subItem goes through encryptObject({ arr: subItem }, key).arr
              AsArray(EncryptSeq(IF level = "item" THEN "subItem" ELSE "item",
                                 x[2], 1, key, r, pos))
    ELSE IF TypeofObject(x) THEN encryptObject(x, key, r, pos)
    ELSE [kind |-> "return", val |-> x, pos |-> pos]

Values(es) == [i \in 1..Len(es) |-> es[i].v]

AsObject(es, m) ==
    IF m.kind # "return" THEN m
    ELSE [kind |-> "return",
          val |-> Obj([i \in 1..Len(es) |-> Entry(es[i].k, m.val[i])]),
          pos |-> m.pos]

encryptObject(d, key, r, pos) ==
    IF d[1] \in {"null", "undefined"}
    THEN [kind |-> "throw", val |-> UndefinedV, pos |-> pos]
    ELSE AsObject(Entries(d), EncryptSeq("entry", Values(Entries(d)), 1, key, r, pos))

DecryptedLeaf(r) == [kind |-> r.kind, val |-> Str(r.val)]

\* decrypt(s, { key }) as the walker uses its result
DecryptLeaf(s, key) == DecryptedLeaf(decrypt(s, KeyOptions(key)))

RECURSIVE DecryptNode(_, _, _)
RECURSIVE decryptObject(_, _)

\* a map that catches for each element and leaves undefined in its place
AllReturnedSkips(rs) ==
    [kind |-> "return",
     val |-> [i \in 1..Len(rs) |-> IF rs[i].kind = "return" THEN rs[i].val
                                    ELSE UndefinedV]]

\* the results of a map: the first element to throw ends the walk
AllReturned(rs) ==
    IF \E i \in 1..Len(rs) : rs[i].kind # "return"
    THEN [kind |-> "throw", val |-> <<>>]
    ELSE [kind |-> "return", val |-> [i \in 1..Len(rs) |-> rs[i].val]]

\* vs.map(...) at the level given
DecryptSeq(level, vs, key) ==
    AllReturned([i \in 1..Len(vs) |-> DecryptNode(level, vs[i], key)])

AsDecryptedArray(m) ==
    IF m.kind # "return" THEN [kind |-> "throw", val |-> UndefinedV]
    ELSE [kind |-> "return", val |-> Arr(m.val)]

DecryptNode(level, x, key) ==
    IF x[1] = "string"
    THEN DecryptLeaf(IF level = "entry" THEN trim(x[2]) ELSE x[2], key)
    ELSE IF x[1] = "array"
         THEN \* an array subItem goes through decryptObject({ arr: subItem }, key).arr
              AsDecryptedArray(DecryptSeq(IF level = "item" THEN "subItem" ELSE "item",
                                          x[2], key))
    ELSE IF TypeofObject(x) THEN decryptObject(x, key)
    ELSE [kind |-> "return", val |-> x]

AsDecryptedObject(es, m) ==
    IF m.kind # "return" THEN [kind |-> "throw", val |-> UndefinedV]
    ELSE [kind |-> "return",
          val |-> Obj([i \in 1..Len(es) |-> Entry(es[i].k, m.val[i])])]

decryptObject(d, key) ==
    IF d[1] \in {"null", "undefined"}
    THEN [kind |-> "throw", val |-> UndefinedV]
    ELSE AsDecryptedObject(Entries(d), DecryptSeq("entry", Values(Entries(d)), key))

(***************************************************************************)
(* Inputs.                                                                 *)
(***************************************************************************)
\* no call of tokenGenerator is under observation
NoTokenCall == tokenLength = 0 /\ tokenType = "" /\ tokenResult = Null

\* ' ', 'a' and U+D7EB, which a shift of 21 or more makes a surrogate
PlainChars == {32, 97, 55275}

StringsOver(chars, n) == UNION {[1..k -> chars] : k \in 0..n}

Plaintexts == StringsOver(PlainChars, MaxLen)

IsPrintableAscii(s) == \A i \in 1..Len(s) : s[i] \in 32..126

\* '', 'b'
Keys == {<<>>, <<98>>}

RndSample == {0, 1, 19}

Streams == [1..RndPeriod -> RndSample]

\* { key: undefined }
UndefinedKeyOptions ==
    [given |-> TRUE, hasKey |-> TRUE, key |-> <<>>,
     firstRandomCharSet |-> <<>>, secondRandomCharSet |-> <<>>]

KeylessOptions ==
    {NoOptions, SetOptions(<<>>, <<>>), SetOptions(<<"set1">>, <<"set2">>)}

EncryptOptions ==
    KeylessOptions \cup {UndefinedKeyOptions}
    \cup {KeyOptions(k) : k \in Keys}
    \cup {[KeyOptions(k) EXCEPT !.firstRandomCharSet = <<"set1">>,
                                !.secondRandomCharSet = <<"standardSet">>] : k \in Keys}

DecryptOptions ==
    {NoOptions, SetOptions(<<>>, <<>>), UndefinedKeyOptions}
    \cup {KeyOptions(k) : k \in Keys}

Outcome(x) == [kind |-> x.kind, val |-> x.val]

(***************************************************************************)
(* encrypt and decrypt of a string.                                        *)
(***************************************************************************)
InitCrypt ==
    /\ data \in Plaintexts
    /\ options \in EncryptOptions
    /\ rnd \in Streams
    /\ dopts = Null
    /\ E = Null
    /\ D = Null
    /\ be = Null
    /\ bd = Null
    /\ text = NoValue
    /\ text1 = NoValue
    /\ eq = Null
    /\ encryptedData = Null
    /\ decryptedData = Null
    /\ NoTokenCall

EncryptCall ==
    /\ rnd # <<>>
    /\ E = Null
    /\ E' = Outcome(encrypt(data, options, rnd, 0))
    /\ UNCHANGED <<data, options, dopts, rnd, D, be, bd, text, text1, eq,
                   encryptedData, decryptedData,
                   tokenVars>>

DecryptCall ==
    /\ E.kind = "return"
    /\ D = Null
    /\ \E o \in DecryptOptions :
        /\ dopts' = o
        /\ D' = decrypt(E.val, o)
    /\ UNCHANGED <<data, options, rnd, E, be, bd, text, text1, eq,
                   encryptedData, decryptedData,
                   tokenVars>>

NextCrypt == EncryptCall \/ DecryptCall

SpecCrypt == InitCrypt /\ [][NextCrypt]_vars

(***************************************************************************)
(* base64Encode and base64Decode.                                          *)
(***************************************************************************)
\* NUL, 'A', DEL, U+D7FF (shifted into the surrogates), a surrogate pair,
\* U+DFFF (shifted out of the surrogates) and U+FFFF (shifted past 0xFFFF)
CodecChars == {0, 65, 127, 55295, 55357, 56832, 57343, 65535}

CodecStrings == StringsOver(CodecChars, MaxLen)

\* the key argument: omitted or one of the keys
CodecKeys == {<<>>} \cup {<<k>> : k \in Keys}

InitCodec ==
    /\ data \in CodecStrings
    /\ options \in CodecKeys
    /\ rnd = <<>>
    /\ dopts = Null
    /\ E = Null
    /\ D = Null
    /\ be = Null
    /\ bd = Null
    /\ text = NoValue
    /\ text1 = NoValue
    /\ eq = Null
    /\ encryptedData = Null
    /\ decryptedData = Null
    /\ NoTokenCall

Base64EncodeCall ==
    /\ be = Null
    /\ be' = [kind |-> "return", val |-> base64Encode(data, options)]
    /\ UNCHANGED <<data, options, dopts, rnd, E, D, bd, text, text1, eq,
                   encryptedData, decryptedData,
                   tokenVars>>

Base64DecodeCall ==
    /\ be.kind = "return"
    /\ bd = Null
    /\ bd' = [kind |-> "return", val |-> base64Decode(be.val, options)]
    /\ UNCHANGED <<data, options, dopts, rnd, E, D, be, text, text1, eq,
                   encryptedData, decryptedData,
                   tokenVars>>

NextCodec == Base64EncodeCall \/ Base64DecodeCall

SpecCodec == InitCodec /\ [][NextCodec]_vars

(***************************************************************************)
(* isEqual, on a plaintext and its ciphertext or on two plain strings.     *)
(***************************************************************************)
IsEqualOptionsSet ==
    {NoEqOptions, EqOptions(<<>>, <<>>, <<>>)}
    \cup {EqOptions(<<c>>, <<>>, <<>>) : c \in BOOLEAN}
    \cup {EqOptions(<<>>, <<k>>, <<>>) : k \in Keys}
    \cup {EqOptions(<<c>>, <<k>>, <<>>) : c \in BOOLEAN, k \in Keys}
    \cup {EqOptions(<<>>, <<k>>, <<TRUE>>) : k \in Keys}

\* the options of the encrypt call whose result is compared
EqEncryptOptions == {NoOptions} \cup {KeyOptions(k) : k \in Keys}

\* ' ', 'A', 'a'
EqChars == {32, 65, 97}

EqStrings == StringsOver(EqChars, MaxLen)

\* numerators that give paddings of length 1 and 20
EqSample == {0, 19}

EqStreams == [1..RndPeriod -> EqSample]

\* the strings that differ from s at most in the case of letters
CaseVariants(s) == {b \in EqStrings : toLowerCase(b) = toLowerCase(s)}

InitEqual ==
    /\ data \in EqStrings
    /\ \/ options \in EqEncryptOptions /\ rnd \in EqStreams
       \/ options = NoOptions /\ rnd = <<>>
    /\ dopts = Null
    /\ E = Null
    /\ D = Null
    /\ be = Null
    /\ bd = Null
    /\ text = NoValue
    /\ text1 = NoValue
    /\ eq = Null
    /\ encryptedData = Null
    /\ decryptedData = Null
    /\ NoTokenCall

\* isEqual(data, encrypt(data, options), o) and isEqual(encrypt(...), data, o)
IsEqualCipherCall ==
    /\ E.kind \in {"return", "undefined"}
    /\ eq = Null
    /\ \E o \in IsEqualOptionsSet, swap \in BOOLEAN :
        /\ dopts' = o
        /\ text' = IF swap THEN Returned(E) ELSE Str(data)
        /\ text1' = IF swap THEN Str(data) ELSE Returned(E)
        /\ eq' = isEqual(text', text1', o)
    /\ UNCHANGED <<data, options, rnd, E, D, be, bd, encryptedData, decryptedData,
                   tokenVars>>

\* isEqual(data, b, o) on two plain strings
IsEqualPlainCall ==
    /\ rnd = <<>>
    /\ eq = Null
    /\ \E o \in IsEqualOptionsSet, b \in EqStrings :
        /\ dopts' = o
        /\ text' = Str(data)
        /\ text1' = Str(b)
        /\ eq' = isEqual(text', text1', o)
    /\ UNCHANGED <<data, options, rnd, E, D, be, bd, encryptedData, decryptedData,
                   tokenVars>>

\* undefined, as encrypt returns after a retry, and null
Absent == {UndefinedV, NullV}

\* isEqual on arguments of which at least one is undefined or null
IsEqualAbsentCall ==
    /\ rnd = <<>>
    /\ eq = Null
    /\ \E o \in IsEqualOptionsSet, a \in Absent \cup {Str(data)}, b \in Absent,
          swap \in BOOLEAN :
        /\ dopts' = o
        /\ text' = IF swap THEN b ELSE a
        /\ text1' = IF swap THEN a ELSE b
        /\ eq' = isEqual(text', text1', o)
    /\ UNCHANGED <<data, options, rnd, E, D, be, bd, encryptedData, decryptedData,
                   tokenVars>>

\* the ciphertext of a second encrypt(data, options), which draws on from
\* where the first call left the random source
SecondCipher == encrypt(data, options, rnd, encrypt(data, options, rnd, 0).pos)

\* isEqual(encrypt(data, options), encrypt(data, options), o)
IsEqualTwoCiphersCall ==
    /\ E.kind = "return"
    /\ eq = Null
    /\ SecondCipher.kind = "return"
    /\ \E o \in IsEqualOptionsSet :
        /\ dopts' = o
        /\ text' = Returned(E)
        /\ text1' = Returned(SecondCipher)
        /\ eq' = isEqual(text', text1', o)
    /\ UNCHANGED <<data, options, rnd, E, D, be, bd, encryptedData, decryptedData,
                   tokenVars>>

\* isEqual(encrypt(data, options), b, o) for a plain b that differs from data
\* in letter case only
IsEqualCaseCall ==
    /\ E.kind = "return"
    /\ eq = Null
    /\ \E o \in IsEqualOptionsSet, b \in CaseVariants(data) \ {data} :
        /\ dopts' = o
        /\ text' = Returned(E)
        /\ text1' = Str(b)
        /\ eq' = isEqual(text', text1', o)
    /\ UNCHANGED <<data, options, rnd, E, D, be, bd, encryptedData, decryptedData,
                   tokenVars>>

NextEqual ==
    \/ IsEqualCaseCall
    \/ EncryptCall
    \/ IsEqualCipherCall
    \/ IsEqualPlainCall
    \/ IsEqualAbsentCall
    \/ IsEqualTwoCiphersCall

SpecEqual == InitEqual /\ [][NextEqual]_vars

(***************************************************************************)
(* encryptObject and decryptObject.                                        *)
(***************************************************************************)
MaxDepth == 4

\* 'x', 42, true, null, undefined, a function
Leaves == {Str(<<120>>), Num(42), Bool(TRUE), NullV, UndefinedV, FunctionV}

\* values nested at most d deep, every container holding at most one value
RECURSIVE ValuesTo(_)
ValuesTo(d) ==
    IF d = 0 THEN Leaves
    ELSE LET inner == ValuesTo(d - 1)
         IN  Leaves \cup {Arr(<<>>), Obj(<<>>)}
             \cup {Arr(<<x>>) : x \in inner}
             \cup {Obj(<<Entry(<<97>>, x)>>) : x \in inner}

\* { a: "x", b: [1, "y", { c: true }] }
Scenario ==
    Obj(<<Entry(<<97>>, Str(<<120>>)),
          Entry(<<98>>, Arr(<<Num(1), Str(<<121>>), Obj(<<Entry(<<99>>, Bool(TRUE))>>)>>))>>)

\* { b: [[" x", [7]], false], a: { c: " y " } }
Wide ==
    Obj(<<Entry(<<98>>, Arr(<<Arr(<<Str(<<32, 120>>), Arr(<<Num(7)>>)>>), Bool(FALSE)>>)),
          Entry(<<97>>, Obj(<<Entry(<<99>>, Str(<<32, 121, 32>>))>>))>>)

IsContainer(x) == x[1] \in {"array", "object"}

Containers == {x \in ValuesTo(MaxDepth) : IsContainer(x)} \cup {Scenario, Wide}

InitWalk ==
    /\ data \in Containers
    /\ options \in CodecKeys
    /\ rnd \in Streams
    /\ dopts = Null
    /\ E = Null
    /\ D = Null
    /\ be = Null
    /\ bd = Null
    /\ text = NoValue
    /\ text1 = NoValue
    /\ eq = Null
    /\ encryptedData = Null
    /\ decryptedData = Null
    /\ NoTokenCall

EncryptObjectCall ==
    /\ encryptedData = Null
    /\ encryptedData' = Outcome(encryptObject(data, KeyOrDefault(options), rnd, 0))
    /\ UNCHANGED <<data, options, dopts, rnd, E, D, be, bd, text, text1, eq, decryptedData,
                   tokenVars>>

DecryptObjectCall ==
    /\ encryptedData.kind = "return"
    /\ decryptedData = Null
    /\ decryptedData' = decryptObject(encryptedData.val, KeyOrDefault(options))
    /\ UNCHANGED <<data, options, dopts, rnd, E, D, be, bd, text, text1, eq, encryptedData,
                   tokenVars>>

NextWalk == EncryptObjectCall \/ DecryptObjectCall

SpecWalk == InitWalk /\ [][NextWalk]_vars

(***************************************************************************)
(* encrypt, decrypt and base64Encode under keys of congruent sums.         *)
(***************************************************************************)
\* '', DC4 (sum 20), 'b' (98), 'v' (118), '11' (98) and 'k' (107)
KeySample == {<<>>, <<20>>, <<98>>, <<118>>, <<49, 49>>, <<107>>}

\* the other keys whose sum is congruent to that of k modulo 20
CongruentKeys(k) == {k2 \in KeySample \ {k} : SumFrom(k2, 1) % 20 = SumFrom(k, 1) % 20}

InitKeys ==
    /\ data \in Plaintexts
    /\ options \in {KeyOptions(k) : k \in KeySample}
    /\ rnd \in Streams
    /\ dopts = Null
    /\ E = Null
    /\ D = Null
    /\ be = Null
    /\ bd = Null
    /\ text = NoValue
    /\ text1 = NoValue
    /\ eq = Null
    /\ encryptedData = Null
    /\ decryptedData = Null
    /\ NoTokenCall

\* base64Encode(data, key) under the key of options
Base64EncodeKeyCall ==
    /\ be = Null
    /\ be' = [kind |-> "return", val |-> base64Encode(data, options.key)]
    /\ UNCHANGED <<data, options, dopts, rnd, E, D, bd, text, text1, eq,
                   encryptedData, decryptedData, tokenVars>>

\* decrypt(encrypt(data, { key: k }), { key: k2 }) for another key k2 of a
\* congruent sum
DecryptOtherKeyCall ==
    /\ E.kind = "return"
    /\ D = Null
    /\ \E k2 \in CongruentKeys(options.key[1]) :
        /\ dopts' = KeyOptions(k2)
        /\ D' = decrypt(E.val, KeyOptions(k2))
    /\ UNCHANGED <<data, options, rnd, E, be, bd, text, text1, eq,
                   encryptedData, decryptedData, tokenVars>>

NextKeys == EncryptCall \/ Base64EncodeKeyCall \/ DecryptOtherKeyCall

SpecKeys == InitKeys /\ [][NextKeys]_vars

(***************************************************************************)
(* The walker on containers with leaves whose transform raises.            *)
(***************************************************************************)
\* 'x', U+D7EB, true and null
RaisingLeaves == {Str(<<120>>), Str(<<55275>>), Bool(TRUE), NullV}

\* a leaf, or a leaf inside an array or an object
RaisingValues ==
    RaisingLeaves \cup {Arr(<<x>>) : x \in RaisingLeaves}
    \cup {Obj(<<Entry(<<99>>, x)>>) : x \in RaisingLeaves}

\* [x, y] and { a: x, b: y }
RaisingContainers ==
    {Arr(<<x, y>>) : x, y \in RaisingValues}
    \cup {Obj(<<Entry(<<97>>, x), Entry(<<98>>, y)>>) : x, y \in RaisingValues}

\* the key argument: omitted or 'b'
RaisingKeys == {<<>>, <<<<98>>>>}

InitRaising ==
    /\ data \in RaisingContainers
    /\ options \in RaisingKeys
    /\ rnd \in Streams
    /\ dopts = Null
    /\ E = Null
    /\ D = Null
    /\ be = Null
    /\ bd = Null
    /\ text = NoValue
    /\ text1 = NoValue
    /\ eq = Null
    /\ encryptedData = Null
    /\ decryptedData = Null
    /\ NoTokenCall

\* decryptObject(data, key) on the container itself; text keeps the argument
DecryptPlainObjectCall ==
    /\ encryptedData = Null
    /\ decryptedData = Null
    /\ text' = data
    /\ decryptedData' = decryptObject(data, KeyOrDefault(options))
    /\ UNCHANGED <<data, options, dopts, rnd, E, D, be, bd, text1, eq, encryptedData,
                   tokenVars>>

NextRaising == EncryptObjectCall \/ DecryptObjectCall \/ DecryptPlainObjectCall

SpecRaising == InitRaising /\ [][NextRaising]_vars

(***************************************************************************)
(* decrypt of input that encrypt did not produce.                          *)
(***************************************************************************)
\* LF, 'S', 'T', 'U', 'V' and 'a': as first character of a payload they are
\* markers of -75, -2, -1, 0, 1 and 12
PayloadChars == {10, 83, 84, 85, 86, 97}

Payloads == StringsOver(PayloadChars, MaxLen)

MalformedOptions == {NoOptions} \cup {KeyOptions(k) : k \in Keys}

InitMalformed ==
    /\ data \in Payloads
    /\ options \in MalformedOptions
    /\ rnd = <<>>
    /\ dopts = Null
    /\ E = Null
    /\ D = Null
    /\ be = Null
    /\ bd = Null
    /\ text = NoValue
    /\ text1 = NoValue
    /\ eq = Null
    /\ encryptedData = Null
    /\ decryptedData = Null
    /\ NoTokenCall

\* the input whose decoding under the key of options gives the payload data:
\* what encrypt makes of its padded string, without the padding
CraftCall ==
    /\ E = Null
    /\ E' = [kind |-> "return",
             val |-> base64Encode(Shift10(data),
                                  IF options.given THEN options.key ELSE <<>>)]
    /\ UNCHANGED <<data, options, dopts, rnd, D, be, bd, text, text1, eq,
                   encryptedData, decryptedData, tokenVars>>

\* the payload itself as input
RawCall ==
    /\ E = Null
    /\ E' = [kind |-> "raw", val |-> data]
    /\ UNCHANGED <<data, options, dopts, rnd, D, be, bd, text, text1, eq,
                   encryptedData, decryptedData, tokenVars>>

\* decrypt(input, options)
DecryptInputCall ==
    /\ E # Null
    /\ D = Null
    /\ dopts' = options
    /\ D' = decrypt(E.val, options)
    /\ UNCHANGED <<data, options, rnd, E, be, bd, text, text1, eq,
                   encryptedData, decryptedData, tokenVars>>

NextMalformed == CraftCall \/ RawCall \/ DecryptInputCall

SpecMalformed == InitMalformed /\ [][NextMalformed]_vars

(***************************************************************************)
(* tokenGenerator.                                                         *)
(***************************************************************************)
MaxTokenLen == 3

\* the lengths asked for, non-positive ones among them
TokenLengths == (0 - 2)..MaxTokenLen

\* the three known sets, a name that is not one, and undefined
TokenTypes == {"defaultSet", "set1", "set2", "standardSet", "undefined"}

\* numerators that give 'A', 'D', '0' and '6' in defaultSet, '0' and '9' in set1
TokenSample == {0, 1, 17, 19}

TokenStreams == [1..RndPeriod -> TokenSample]

InitToken ==
    /\ tokenLength \in TokenLengths
    /\ tokenType \in TokenTypes
    /\ tokenResult = Null
    /\ rnd \in TokenStreams
    /\ data = <<>>
    /\ options = NoOptions
    /\ dopts = Null
    /\ E = Null
    /\ D = Null
    /\ be = Null
    /\ bd = Null
    /\ text = NoValue
    /\ text1 = NoValue
    /\ eq = Null
    /\ encryptedData = Null
    /\ decryptedData = Null

TokenGeneratorCall ==
    /\ tokenResult = Null
    /\ tokenResult' = Outcome(tokenGenerator(tokenLength, tokenType, rnd, 0))
    /\ UNCHANGED <<data, options, dopts, rnd, E, D, be, bd, text, text1, eq,
                   encryptedData, decryptedData, tokenLength, tokenType>>

NextToken == TokenGeneratorCall

SpecToken == InitToken /\ [][NextToken]_vars

(***************************************************************************)
(* Properties of the transform and the codec.                              *)
(***************************************************************************)
HasKey(o) == o.given /\ o.hasKey /\ o.key # <<>>

\* C1: for printable-ASCII data and a key k, encrypt with {key: k} returns a
\* string whenever the generator delivers both paddings, and decrypt of that
\* string with {key: k} is the trimmed data.
RoundTrip ==
    (IsPrintableAscii(data) /\ HasKey(options)) =>
        /\ (E # Null /\ E.kind # "diverge") => E.kind = "return"
        /\ (D # Null /\ dopts = KeyOptions(options.key[1])) =>
               (D.kind = "return" /\ D.val = trim(data))

\* a padded plaintext was encrypted and decrypted back under the same key
RoundTripWitness ==
    /\ data = <<32, 97>>
    /\ options.firstRandomCharSet = <<"set1">>
    /\ HasKey(options)
    /\ dopts = KeyOptions(options.key[1])
    /\ D.kind = "return"
    /\ D.val = <<97>>

\* C2: an encrypt call on a string that completes without raising returns a
\* ciphertext that decrypts, under the same key, to the trimmed plaintext.
EncryptReturnsVerified ==
    (E # Null /\ E.kind \notin {"throw", "diverge"}) =>
        /\ E.kind = "return"
        /\ decrypt(E.val, [given |-> TRUE, hasKey |-> TRUE,
                           key |-> IF options.given THEN options.key ELSE <<>>,
                           firstRandomCharSet |-> <<>>,
                           secondRandomCharSet |-> <<>>]).val = trim(data)

\* C3: base64Decode of base64Encode under the same key gives the data back.
CodecInverse == bd # Null => bd.val = data

\* C4: with no key supplied to encrypt nor to decrypt, whatever the form of
\* the two options arguments, decrypt of encrypt is the trimmed data.
Keyless(o) == ~o.given \/ ~o.hasKey

DefaultKeyAgreement ==
    (IsPrintableAscii(data) /\ Keyless(options) /\ D # Null /\ Keyless(dopts)) =>
        (D.kind = "return" /\ D.val = trim(data))

(***************************************************************************)
(* Properties of the comparator.                                           *)
(***************************************************************************)
\* C5: for a plaintext and a non-empty key k, isEqual of the plaintext and
\* the ciphertext encrypt returned for it under k, with {key: k}, is true.
EqualityFallback ==
    (/\ eq # Null
     /\ E.kind = "return"
     /\ HasKey(options) /\ options.key[1] # <<>>
     /\ text = Str(data) /\ text1 = Str(E.val)
     /\ dopts = EqOptions(<<>>, options.key, <<>>))
    => eq.val.isEqual

\* two strings of the same length that differ, and only in the case of letters
DifferOnlyInCase(a, b) == a # b /\ toLowerCase(a) = toLowerCase(b)

\* C6: caseSensitive defaults to true when the caller does not supply it:
\* two plain strings that differ only in letter case, neither one decrypting
\* to the other, are not equal under absent options nor under {key: k}.
CaseSensitiveDefault ==
    (/\ eq # Null
     /\ E = Null
     /\ dopts.caseSensitive = <<>>
     /\ (~dopts.given \/ dopts.key # <<>> \/ dopts.log # <<>>)
     /\ DifferOnlyInCase(text[2], text1[2])
     /\ LET k == IF dopts.key = <<>> \/ dopts.key[1] = <<>> THEN <<>> ELSE dopts.key
        IN  /\ DecryptOrSelf(text[2], k) = text[2]
            /\ DecryptOrSelf(text1[2], k) = text1[2])
    => ~eq.val.isEqual

(***************************************************************************)
(* Properties of the walker.                                               *)
(***************************************************************************)
\* container kind, keys in order and sequence lengths, leaf values ignored
RECURSIVE Shape(_)
Shape(x) ==
    IF x[1] = "array" THEN Arr([i \in 1..Len(x[2]) |-> Shape(x[2][i])])
    ELSE IF x[1] = "object"
         THEN Obj([i \in 1..Len(x[2]) |-> Entry(x[2][i].k, Shape(x[2][i].v))])
    ELSE <<"leaf", <<>>>>

\* C7: encryptObject, when its paddings are delivered, and decryptObject
\* after it return a value of the shape of the container they were given.
StructurePreserved ==
    /\ (encryptedData # Null /\ encryptedData.kind # "diverge") =>
           (encryptedData.kind = "return" /\ Shape(encryptedData.val) = Shape(data))
    /\ decryptedData # Null =>
           (decryptedData.kind = "return" /\ Shape(decryptedData.val) = Shape(data))

\* the value with every number and boolean leaf replaced by its string form
RECURSIVE Stringified(_)
Stringified(x) ==
    IF x[1] \in {"number", "boolean"} THEN Str(StringOf(x))
    ELSE IF x[1] = "array" THEN Arr([i \in 1..Len(x[2]) |-> Stringified(x[2][i])])
    ELSE IF x[1] = "object"
         THEN Obj([i \in 1..Len(x[2]) |-> Entry(x[2][i].k, Stringified(x[2][i].v))])
    ELSE x

\* every leaf is a string, a number or a boolean
RECURSIVE ScalarLeaves(_)
ScalarLeaves(x) ==
    IF IsContainer(x) THEN \A i \in 1..Len(x[2]) :
                               ScalarLeaves(IF x[1] = "array" THEN x[2][i] ELSE x[2][i].v)
    ELSE x[1] \in {"string", "number", "boolean"}

\* C8: for a container whose leaves are strings, numbers and booleans,
\* decryptObject of encryptObject is the container with its numbers and
\* booleans in string form (stated for the mappings the signature admits).
ContainerRoundTrip ==
    (data[1] = "object" /\ ScalarLeaves(data) /\ decryptedData # Null) =>
        (decryptedData.kind = "return" /\ decryptedData.val = Stringified(data))

\* the scalar leaves of x that occur unchanged at the same place in y
RECURSIVE PlainLeaves(_, _)
PlainLeaves(x, y) ==
    IF IsContainer(x)
    THEN IF y[1] # x[1] \/ Len(y[2]) # Len(x[2]) THEN {}
         ELSE UNION {PlainLeaves(IF x[1] = "array" THEN x[2][i] ELSE x[2][i].v,
                                 IF y[1] = "array" THEN y[2][i] ELSE y[2][i].v) :
                     i \in 1..Len(x[2])}
    ELSE IF x[1] \in {"string", "number", "boolean"} /\ y = x THEN {x} ELSE {}

\* C9: encryptObject leaves no string, number or boolean leaf as it was.
NoPlainLeaf ==
    (encryptedData # Null /\ encryptedData.kind = "return") =>
        PlainLeaves(IF data[1] = "array" THEN Obj(Entries(data)) ELSE data,
                    encryptedData.val) = {}

\* whether null, undefined or a function occurs in x
RECURSIVE HasOpaque(_)
HasOpaque(x) ==
    IF IsContainer(x) THEN \E i \in 1..Len(x[2]) :
                               HasOpaque(IF x[1] = "array" THEN x[2][i] ELSE x[2][i].v)
    ELSE x[1] \in {"null", "undefined", "function"}

\* the values at the places where x holds null, undefined or a function
RECURSIVE OpaqueChanged(_, _)
OpaqueChanged(x, y) ==
    IF IsContainer(x)
    THEN IF y[1] \notin {"array", "object"} \/ Len(y[2]) # Len(x[2]) THEN TRUE
         ELSE \E i \in 1..Len(x[2]) :
                  OpaqueChanged(IF x[1] = "array" THEN x[2][i] ELSE x[2][i].v,
                                IF y[1] = "array" THEN y[2][i] ELSE y[2][i].v)
    ELSE x[1] \in {"null", "undefined", "function"} /\ y # x

\* C10: a walk over a mapping holding null, undefined or a function
\* completes without raising and hands these values back unchanged.
OpaquePassThrough ==
    /\ (/\ data[1] = "object" /\ HasOpaque(data)
        /\ encryptedData # Null /\ encryptedData.kind # "diverge") =>
           (encryptedData.kind = "return" /\ ~OpaqueChanged(data, encryptedData.val))
    /\ (data[1] = "object" /\ HasOpaque(data) /\ decryptedData # Null) =>
           (decryptedData.kind = "return" /\ ~OpaqueChanged(data, decryptedData.val))

(***************************************************************************)
(* Error handling and order of the comparator.                             *)
(***************************************************************************)
\* decrypt(t, { key }) as isEqual calls it under the options o
EqDecrypt(t, o) ==
    decrypt(t, [given |-> TRUE, hasKey |-> TRUE, key |-> EqKey(EqDefaults(o)),
                firstRandomCharSet |-> <<>>, secondRandomCharSet |-> <<>>])

BothStrings == text[1] = "string" /\ text1[1] = "string"

Alphabet(characterSet) == {characterSet[i] : i \in 1..Len(characterSet)}

\* the stream yields '0' from the set on every draw
OnlyZeros(characterSet, r) ==
    \A i \in 1..Len(r) : RandomChar(characterSet, r, i - 1) = 48

\* C13: for a length n >= 1 and any set name, a token that tokenGenerator
\* returns has length n, all its characters in the resolved alphabet (the
\* default one for an unknown name) and a first character other than '0';
\* the redraw loop ends unless the random source yields '0' for ever.
TokenShape ==
    (tokenResult # Null /\ tokenLength >= 1) =>
        /\ tokenResult.kind \in {"return", "diverge"}
        /\ tokenResult.kind = "return" =>
              /\ Len(tokenResult.val) = tokenLength
              /\ \A i \in 1..Len(tokenResult.val) :
                     tokenResult.val[i] \in Alphabet(characterSets(tokenType))
              /\ tokenResult.val[1] # 48
              /\ tokenType \notin {"set1", "set2"} =>
                     \A i \in 1..Len(tokenResult.val) :
                         tokenResult.val[i] \in Alphabet(defaultSet)
        /\ tokenResult.kind = "diverge" => OnlyZeros(characterSets(tokenType), rnd)

\* a token of digits whose first draw was '0' and was redrawn to '9'
TokenShapeWitness ==
    /\ tokenResult # Null
    /\ tokenLength = 2
    /\ tokenType = "set1"
    /\ rnd = <<0, 19>>
    /\ tokenResult.kind = "return"
    /\ tokenResult.val = <<57, 57>>

\* C14: tokenGenerator with a length of 0 or below fails with an error: it
\* neither returns a token nor loops for ever.
NonPositiveLengthFails ==
    (tokenResult # Null /\ tokenLength <= 0) => tokenResult.kind = "throw"

(***************************************************************************)
(* Order and methods of the comparator.                                    *)
(***************************************************************************)
\* the decrypted form of a string argument, the argument itself when decrypt
\* raises
Decrypted(t) == DecryptOrSelf(t[2], EqKey(EqDefaults(dopts)))

Folded(s) == Fold(s, EqLower(EqDefaults(dopts)))

\* the match of each step on the two arguments of the call
MatchDirect ==
    \/ text[2] = text1[2]
    \/ Folded(text[2]) = text1[2]
    \/ text[2] = Folded(text1[2])
    \/ Folded(text[2]) = Folded(text1[2])

MatchDecrypted1 ==
    \/ Decrypted(text1) = text[2]
    \/ Folded(Decrypted(text1)) = text[2]
    \/ Decrypted(text1) = Folded(text[2])
    \/ Folded(Decrypted(text1)) = Folded(text[2])

MatchDecrypted ==
    \/ Decrypted(text) = text1[2]
    \/ Folded(Decrypted(text)) = text1[2]

MatchBoth ==
    \/ Decrypted(text1) = Decrypted(text)
    \/ Folded(Decrypted(text1)) = Decrypted(text)
    \/ Decrypted(text1) = Folded(Decrypted(text))

\* C12: isEqual checks, in this order, the direct comparison, decrypted b
\* against raw a, decrypted a against raw b, decrypted a against decrypted b,
\* and returns at the first match with the method "Direct comparison",
\* "Decrypted Text1 matched Text", "Decrypted Text matches Text1" or
\* "Both decrypted values match"; without a match it returns {isEqual: false}
\* and no method.
MethodOfFirstMatch ==
    (eq # Null /\ BothStrings) =>
        eq.val = IF MatchDirect THEN EqResult(TRUE, "Direct comparison")
                 ELSE IF MatchDecrypted1 THEN EqResult(TRUE, "Decrypted Text1 matched Text")
                 ELSE IF MatchDecrypted THEN EqResult(TRUE, "Decrypted Text matches Text1")
                 ELSE IF MatchBoth THEN EqResult(TRUE, "Both decrypted values match")
                 ELSE EqResult(FALSE, "")

\* C18: the boolean result of isEqual does not depend on the order of its
\* two arguments, whatever the options.
OrderIndependent ==
    (eq # Null /\ BothStrings) =>
        isEqual(text1, text, dopts).val.isEqual = eq.val.isEqual

\* no case folding is in effect, or neither argument decrypts under the key
FoldFreeOrPlain ==
    \/ ~EqLower(EqDefaults(dopts))
    \/ Decrypted(text) = text[2] /\ Decrypted(text1) = text1[2]

\* C18 as amended: the boolean result of isEqual does not depend on the order
\* of its arguments when the comparison is case-sensitive (caseSensitive true
\* or no options) or when neither argument decrypts to something else.
OrderIndependentFoldFree ==
    (eq # Null /\ BothStrings /\ FoldFreeOrPlain) =>
        isEqual(text1, text, dopts).val.isEqual = eq.val.isEqual

\* a case-sensitive call that matched at the step of decrypted a against b
OrderIndependentWitness ==
    /\ eq # Null
    /\ BothStrings
    /\ ~EqLower(EqDefaults(dopts))
    /\ text1 = Str(<<65, 97>>)
    /\ eq.val = EqResult(TRUE, "Decrypted Text matches Text1")

(***************************************************************************)
(* Properties of decrypt on malformed input.                               *)
(***************************************************************************)
\* C15: decrypt does not raise on an input whose double base64 decoding
\* succeeds, whatever the decoded payload: it returns a string.
DecryptLenient == D # Null => D.kind = "return"

\* s is t between two of its positions
IsPieceOf(s, t) == \E i, j \in 1..(Len(t) + 1) : s = SubSeq(t, i, j)

\* C15 as amended: on an input that decodes to a payload, decrypt raises
\* exactly when the payload is empty or its first character is a marker
\* below -1; on every other payload it returns a piece of the payload, each
\* character unshifted.
LenientFromMarker ==
    (D # Null /\ E.kind = "return") =>
        /\ D.kind = "throw" <=> (data = <<>> \/ data[1] < 84)
        /\ D.kind = "return" => IsPieceOf(D.val, Unshift10(data))

\* a payload of marker -1 and no valid end marker comes back whole
LenientFromMarkerWitness ==
    /\ D # Null
    /\ E.kind = "return"
    /\ data = <<84, 97>>
    /\ D.kind = "return"
    /\ D.val = <<74, 87>>

(***************************************************************************)
(* Error propagation of the walker.                                        *)
(***************************************************************************)
\* the leaves of a value
RECURSIVE LeavesOf(_)
LeavesOf(x) ==
    IF IsContainer(x)
    THEN UNION {LeavesOf(IF x[1] = "array" THEN x[2][i] ELSE x[2][i].v) :
                i \in 1..Len(x[2])}
    ELSE {x}

\* the container decryptObject was called on
DecryptInput == IF text = NoValue THEN encryptedData.val ELSE text

\* the walk of decryptObject comes on a leaf that raises: a string that
\* decrypt raises on, or null
DecryptLeafRaises(x, key) ==
    \E l \in LeavesOf(x) :
        \/ l[1] = "null"
        \/ l[1] = "string" /\ decrypt(l[2], KeyOptions(key)).kind = "throw"

Raised == [kind |-> "throw", val |-> UndefinedV]

\* C16: the walker does not catch errors.  When the transform of a leaf
\* raises, decryptObject raises and returns no container, and it raises only
\* then; encryptObject that raises returns no container, and it raises on
\* every null it comes on.
WalkPropagates ==
    /\ decryptedData # Null =>
          /\ DecryptLeafRaises(DecryptInput, KeyOrDefault(options)) <=>
                 decryptedData.kind = "throw"
          /\ decryptedData.kind = "throw" => decryptedData = Raised
    /\ encryptedData # Null =>
          /\ encryptedData.kind = "throw" => encryptedData = Raised
          /\ (NullV \in LeavesOf(data) /\ encryptedData.kind # "diverge") =>
                 encryptedData.kind = "throw"

\* decryptObject({ a: true, b: 'x' }): the first entry passes, the second
\* raises, nothing is returned
WalkPropagatesWitness ==
    /\ text = Obj(<<Entry(<<97>>, Bool(TRUE)), Entry(<<98>>, Str(<<120>>))>>)
    /\ decryptedData = Raised

(***************************************************************************)
(* The key as a sum modulo 20.                                             *)
(***************************************************************************)
\* C17: the key acts through the sum of its character codes modulo 20 only:
\* under two keys of congruent sums base64Encode gives the same output, and
\* a ciphertext that encrypt returned under one is decrypted under the other
\* to the trimmed plaintext.
KeySumOnly ==
    /\ be # Null =>
          \A k2 \in CongruentKeys(options.key[1]) :
              base64Encode(data, <<k2>>) = be.val
    /\ D # Null => (D.kind = "return" /\ D.val = trim(data))

\* a ciphertext made under 'b' and decrypted under '11'
KeySumOnlyWitness ==
    /\ data = <<32, 97>>
    /\ options = KeyOptions(<<98>>)
    /\ be # Null
    /\ dopts = KeyOptions(<<49, 49>>)
    /\ D.kind = "return"
    /\ D.val = <<97>>

====
